---- MODULE Spec2Model ----
(***************************************************************************)
(* Model of the ToSql<Jsonb, Pg> / FromSql<Jsonb, Pg> implementations that *)
(* #[derive(DieselJsonb)] generates (src/src/lib.rs, lines 95-111), bound  *)
(* to the crate's documented example type  struct Bar { x: i32 }.          *)
(*                                                                         *)
(* A byte is an integer 0..255, a byte slice a sequence of bytes.  The     *)
(* JSON text of a value is computed digit by digit and parsed back by a    *)
(* recursive-descent parser, so encode and decode are two different        *)
(* computations.  Byte slices handed to from_sql are built from the bytes  *)
(* of ByteAlphabet and the decimal digits; over those bytes (no comma, no  *)
(* bracket, no backslash, no '.', 'e', 'E', no non-ASCII byte) the parser  *)
(* follows serde_json::from_slice::<Bar>.  All integers that occur have    *)
(* fewer than ten digits and therefore fit an i32.                         *)
(***************************************************************************)
EXTENDS Integers, Sequences, FiniteSets, TLC

VARIABLES pc, val, sink, input, res, prev, serr

vars == <<pc, val, sink, input, res, prev, serr>>

(* ------------------------------ bounds --------------------------------- *)

\* Bar.x ranges over -MaxX..MaxX
MaxX == 12
\* every byte slice over ByteAlphabet of at most this length is decoded
MaxLen == 3
\* number of threads calling the codec concurrently in SpecConc
NumThreads == 2

(* --------------------------- bytes and values -------------------------- *)

Ascii ==
  [space |-> 32, tab |-> 9, lf |-> 10, cr |-> 13, quote |-> 34, minus |-> 45,
   zero |-> 48, nine |-> 57, colon |-> 58, x |-> 120, lbrace |-> 123,
   rbrace |-> 125]

Values == [x : (0 - MaxX)..MaxX]

NoValue == [none |-> TRUE]

\* serde_json::to_writer's rendering of the digits of a non-negative integer
RECURSIVE Digits(_)
Digits(n) ==
  IF n < 10 THEN <<Ascii.zero + n>>
  ELSE Digits(n \div 10) \o <<Ascii.zero + (n % 10)>>

itoa(n) == IF n < 0 THEN <<Ascii.minus>> \o Digits(0 - n) ELSE Digits(n)

\* the bytes serde_json writes for Bar { x }:  {"x":<x>}
to_json(v) ==
  <<Ascii.lbrace, Ascii.quote, Ascii.x, Ascii.quote, Ascii.colon>>
    \o itoa(v.x) \o <<Ascii.rbrace>>

(* ------------------- serde_json::from_slice::<Bar> --------------------- *)

IsWs(c) == c \in {Ascii.space, Ascii.tab, Ascii.lf, Ascii.cr}

IsDigit(c) == c \in Ascii.zero..Ascii.nine

\* outcome of one parsing step: st is "ok", or the category of the
\* serde_json error ("eof", "syntax", "data"); pos is the next unread index
PR(st, pos, v) == [st |-> st, pos |-> pos, val |-> v]

\* Deserializer::parse_whitespace: index of the next non-blank byte
RECURSIVE SkipWs(_, _)
SkipWs(b, i) ==
  IF i <= Len(b) /\ IsWs(b[i]) THEN SkipWs(b, i + 1) ELSE i

\* SliceRead::parse_str / ignore_str from the byte after the opening quote
RECURSIVE ScanStr(_, _)
ScanStr(b, i) ==
  IF i > Len(b) THEN PR("eof", i, 0)
  ELSE IF b[i] = Ascii.quote THEN PR("ok", i, 0)
  ELSE IF b[i] < Ascii.space THEN PR("syntax", i, 0)
  ELSE ScanStr(b, i + 1)

\* the string whose opening quote is b[i], e being what ScanStr found
str_of(b, i, e) ==
  IF e.st = "ok" THEN PR("ok", e.pos + 1, SubSeq(b, i + 1, e.pos - 1))
  ELSE PR(e.st, e.pos, <<>>)

\* a string whose opening quote is b[i]; val is its content
parse_str(b, i) == str_of(b, i, ScanStr(b, i + 1))

RECURSIVE DigitsEnd(_, _)
DigitsEnd(b, i) ==
  IF i <= Len(b) /\ IsDigit(b[i]) THEN DigitsEnd(b, i + 1) ELSE i

RECURSIVE DigitsVal(_, _, _)
DigitsVal(b, i, j) ==
  IF j < i THEN 0 ELSE DigitsVal(b, i, j - 1) * 10 + (b[j] - Ascii.zero)

\* the integer whose digits are b[i..k-1]
int_of(b, i, k, positive) ==
  PR("ok", k,
     <<FALSE, IF positive THEN DigitsVal(b, i, k - 1)
              ELSE 0 - DigitsVal(b, i, k - 1)>>)

\* Deserializer::parse_integer, b[i] being the first byte after an optional
\* sign; val is <<float, n>>: "-0" is the float -0.0, everything else an integer
parse_integer(b, i, positive) ==
  IF i > Len(b) THEN PR("eof", i, <<FALSE, 0>>)
  ELSE IF ~IsDigit(b[i]) THEN PR("syntax", i, <<FALSE, 0>>)
  ELSE IF b[i] = Ascii.zero
    THEN IF i + 1 <= Len(b) /\ IsDigit(b[i + 1])
         THEN PR("syntax", i + 1, <<FALSE, 0>>)
         ELSE PR("ok", i + 1, <<~positive, 0>>)
  ELSE int_of(b, i, DigitsEnd(b, i), positive)

\* a parsed value that is not kept: only its status and end matter
ignored(r) == PR(r.st, r.pos, 0)

\* Deserializer::ignore_integer: as parse_integer, but a sign at the end of
\* the input is an invalid number
ignore_integer(b, i) ==
  IF i > Len(b) THEN PR("syntax", i, 0)
  ELSE ignored(parse_integer(b, i, TRUE))

\* Deserializer::ignore_value: the value of a field Bar does not have.
\* ignore_value looks at the first byte b[i]; for an object ignore_key reads
\* the key at b[k], ignore_colon the colon at b[c], ignore_member the
\* member's value v and ignore_end the closing brace at b[e].
RECURSIVE ignore_value(_, _)
RECURSIVE ignore_key(_, _)
RECURSIVE ignore_colon(_, _, _)
RECURSIVE ignore_member(_, _)
ignore_end(b, e) ==
  IF e > Len(b) THEN PR("eof", e, 0)
  ELSE IF b[e] = Ascii.rbrace THEN PR("ok", e + 1, 0)
  ELSE PR("syntax", e, 0)

ignore_member(b, v) ==
  IF v.st # "ok" THEN v ELSE ignore_end(b, SkipWs(b, v.pos))

ignore_colon(b, key, c) ==
  IF key.st # "ok" THEN ignored(key)
  ELSE IF c > Len(b) THEN PR("eof", c, 0)
  ELSE IF b[c] # Ascii.colon THEN PR("syntax", c, 0)
  ELSE ignore_member(b, ignore_value(b, SkipWs(b, c + 1)))

ignore_key(b, k) ==
  IF k > Len(b) THEN PR("eof", k, 0)
  ELSE IF b[k] = Ascii.rbrace THEN PR("ok", k + 1, 0)
  ELSE IF b[k] # Ascii.quote THEN PR("syntax", k, 0)
  ELSE ignore_colon(b, parse_str(b, k), SkipWs(b, parse_str(b, k).pos))

ignore_value(b, i) ==
  IF i > Len(b) THEN PR("eof", i, 0)
  ELSE IF b[i] = Ascii.quote THEN ignored(parse_str(b, i))
  ELSE IF b[i] = Ascii.minus THEN ignore_integer(b, i + 1)
  ELSE IF IsDigit(b[i]) THEN ignore_integer(b, i)
  ELSE IF b[i] = Ascii.lbrace THEN ignore_key(b, SkipWs(b, i + 1))
  ELSE PR("syntax", i, 0)

\* a well-formed value r of the wrong JSON type is a data error, a malformed
\* one keeps its own error
invalid_type(r) ==
  IF r.st = "ok" THEN PR("data", r.pos, 0) ELSE PR(r.st, r.pos, 0)

\* Deserializer::peek_invalid_type at the first byte b[i] of a value
peek_invalid_type(b, i) ==
  IF b[i] = Ascii.quote THEN invalid_type(parse_str(b, i))
  ELSE IF b[i] = Ascii.minus THEN invalid_type(parse_integer(b, i + 1, FALSE))
  ELSE IF IsDigit(b[i]) THEN invalid_type(parse_integer(b, i, TRUE))
  ELSE IF b[i] = Ascii.lbrace THEN PR("data", i, 0)
  ELSE PR("syntax", i, 0)

\* the i32 visitor on the parsed number n: a float is the wrong type
visit_i32(n) ==
  IF n.st # "ok" THEN PR(n.st, n.pos, 0)
  ELSE IF n.val[1] THEN PR("data", n.pos, 0)
  ELSE PR("ok", n.pos, n.val[2])

\* <i32 as Deserialize>::deserialize at the first byte b[i] of the value of x
deserialize_i32(b, i) ==
  IF i > Len(b) THEN PR("eof", i, 0)
  ELSE IF b[i] = Ascii.minus THEN visit_i32(parse_integer(b, i + 1, FALSE))
  ELSE IF IsDigit(b[i]) THEN visit_i32(parse_integer(b, i, TRUE))
  ELSE peek_invalid_type(b, i)

\* the derived Visitor::visit_map of Bar over MapAccess.  A slice holds no
\* comma, so the object has at most one member: visit_map reads its key at
\* b[k], map_colon the colon at b[c], map_value the member's value v and
\* map_end the closing brace at b[e]; without a member named x the field is
\* missing.
map_end(b, name, v, e) ==
  IF e > Len(b) THEN PR("eof", e, 0)
  ELSE IF b[e] # Ascii.rbrace THEN PR("syntax", e, 0)
  ELSE IF name = <<Ascii.x>> THEN PR("ok", e + 1, [x |-> v.val])
  ELSE PR("data", e, 0)

map_value(b, name, v) ==
  IF v.st # "ok" THEN v ELSE map_end(b, name, v, SkipWs(b, v.pos))

map_colon(b, key, c) ==
  IF key.st # "ok" THEN ignored(key)
  ELSE IF c > Len(b) THEN PR("eof", c, 0)
  ELSE IF b[c] # Ascii.colon THEN PR("syntax", c, 0)
  ELSE IF key.val = <<Ascii.x>>
    THEN map_value(b, key.val, deserialize_i32(b, SkipWs(b, c + 1)))
  ELSE map_value(b, key.val, ignore_value(b, SkipWs(b, c + 1)))

visit_map(b, k) ==
  IF k > Len(b) THEN PR("eof", k, 0)
  ELSE IF b[k] = Ascii.rbrace THEN PR("data", k, 0)
  ELSE IF b[k] # Ascii.quote THEN PR("syntax", k, 0)
  ELSE map_colon(b, parse_str(b, k), SkipWs(b, parse_str(b, k).pos))

\* Deserializer::end after the value m: only blanks may follow
end(b, m, j) ==
  IF m.st # "ok" THEN m
  ELSE IF j <= Len(b) THEN PR("syntax", j, 0)
  ELSE m

\* Deserializer::deserialize_struct at the first byte b[i] of the document
deserialize_struct(b, i) ==
  IF i > Len(b) THEN PR("eof", i, 0)
  ELSE IF b[i] # Ascii.lbrace THEN peek_invalid_type(b, i)
  ELSE visit_map(b, SkipWs(b, i + 1))

\* the position after the value m, blanks skipped
after(b, m) == IF m.st = "ok" THEN SkipWs(b, m.pos) ELSE m.pos

\* serde_json::from_slice::<Bar>(b): deserialize_struct, then Deserializer::end
from_json(b) ==
  end(b, deserialize_struct(b, SkipWs(b, 1)),
      after(b, deserialize_struct(b, SkipWs(b, 1))))

(* --------------------- results of the two trait methods ---------------- *)

Ok(v) == [kind |-> "Ok", value |-> v]

Err(e) == [kind |-> "Err", err |-> e]

\* bytes[0] on an empty slice: the index is out of bounds and the call panics
Panic == [kind |-> "Panic", err |-> "index out of bounds"]

NoResult == [kind |-> "None"]

VersionTag == 1

UnsupportedVersionMsg == "Unsupported JSONB encoding version"

InvalidJsonMsg == "Invalid Json"

IsNullNo == "IsNull::No"

(* ------------------------------- to_sql -------------------------------- *)

\* the slice handed to out.write_all on line 97
TagBytes == <<VersionTag>>

\* write_all as a buffer that puts new bytes in front of the old ones
write_all_prepend(buf, data) == data \o buf

\* <Output as io::Write>::write_all on the Vec-backed buffer of the Pg backend
write_all(buf, data) == buf \o data

\* serde_json::to_writer(out, &self).  fail = <<>>: the Serialize impl
\* succeeds and the whole document is written.  fail = <<n, e>>: it reports
\* error e after the serializer has written the first n bytes.
to_writer(buf, v, fail) ==
  IF fail = <<>>
  THEN [out |-> write_all(buf, to_json(v)), err |-> "none"]
  ELSE [out |-> write_all(buf, SubSeq(to_json(v), 1, fail[1])),
        err |-> fail[2]]

\* to_sql_result reporting the null state on success
to_sql_result_null(w) == IF w.err = "none" THEN Ok("IsNull::Yes") ELSE Err(w.err)

\* to_sql_result with the serializer's result dropped instead of `?`
to_sql_result_swallow(w) == Ok(IsNullNo)

\* lines 98-99: `?` returns the serializer's error, otherwise Ok(IsNull::No)
to_sql_result(w) == IF w.err = "none" THEN Ok(IsNullNo) ELSE Err(w.err)

\* errors a Serialize impl can make serde_json::to_writer report
SerErrors == {"key must be a string", "custom Serialize error"}

\* how the Serialize impl may fail for v: not at all, or before the closing
\* brace is written
SerOutcomes(v) ==
  {<<>>} \cup {<<n, e>> : n \in 0..(Len(to_json(v)) - 1), e \in SerErrors}

(* ------------------------------ from_sql ------------------------------- *)

\* map_err without the closure: the parser's own error reaches the caller
map_err_passthrough(r) == IF r.st = "ok" THEN Ok(r.val) ELSE Err(r.st)

\* line 109: .map_err(|_| "Invalid Json".into()) on the parser's result
map_err(r) == IF r.st = "ok" THEN Ok(r.val) ELSE Err(InvalidJsonMsg)

\* from_sql parsing the whole slice, tag included
from_sql_keep_tag(bytes) ==
  IF Len(bytes) = 0 THEN Panic
  ELSE IF bytes[1] # VersionTag THEN Err(UnsupportedVersionMsg)
  ELSE map_err(from_json(bytes))

\* from_sql parsing the payload before it looks at the tag
from_sql_parse_first(bytes) ==
  IF Len(bytes) = 0 THEN Panic
  ELSE IF map_err(from_json(SubSeq(bytes, 2, Len(bytes)))).kind = "Err"
    THEN Err(InvalidJsonMsg)
  ELSE IF bytes[1] # VersionTag THEN Err(UnsupportedVersionMsg)
  ELSE map_err(from_json(SubSeq(bytes, 2, Len(bytes))))

\* from_sql naming the offending byte in its version error
from_sql_with_byte(bytes) ==
  IF Len(bytes) = 0 THEN Panic
  ELSE IF bytes[1] # VersionTag
    THEN Err(IF bytes[1] = 0 THEN "Unsupported JSONB encoding version 0"
             ELSE "Unsupported JSONB encoding version >= 2")
  ELSE map_err(from_json(SubSeq(bytes, 2, Len(bytes))))

\* lines 104-110
from_sql(bytes) ==
  IF Len(bytes) = 0 THEN Panic
  ELSE IF bytes[1] # VersionTag THEN Err(UnsupportedVersionMsg)
  ELSE map_err(from_json(SubSeq(bytes, 2, Len(bytes))))

(* ------------------------------- inputs -------------------------------- *)

ByteAlphabet ==
  {0, 1, 2, Ascii.space, Ascii.quote, Ascii.minus, Ascii.zero, Ascii.zero + 5,
   Ascii.colon, Ascii.x, Ascii.lbrace, Ascii.rbrace}

SeqsUpTo(S, n) == UNION {[1..k -> S] : k \in 0..n}

\* a stored envelope damaged in one place: cut short, one byte replaced,
\* one byte inserted, one byte removed
Damaged(e) ==
  {SubSeq(e, 1, k) : k \in 0..Len(e)}
    \cup {[e EXCEPT ![i] = c] : i \in 1..Len(e), c \in ByteAlphabet}
    \cup {SubSeq(e, 1, i) \o <<c>> \o SubSeq(e, i + 1, Len(e)) :
            i \in 0..Len(e), c \in ByteAlphabet}
    \cup {SubSeq(e, 1, i - 1) \o SubSeq(e, i + 1, Len(e)) : i \in 1..Len(e)}

\* the byte slices the storage layer hands to from_sql
DecodeInputs ==
  SeqsUpTo(ByteAlphabet, MaxLen)
    \cup UNION {Damaged(<<1>> \o to_json(v)) : v \in Values}

SeqThreads == {1}

ConcThreads == 1..NumThreads

ConcValues == {[x |-> 5], [x |-> 0 - 10]}

ConcInputs ==
  {<<>>, <<1>>, <<2>>,
   <<1>> \o to_json([x |-> 5]),
   <<0>> \o to_json([x |-> 5]),
   <<2>> \o to_json([x |-> 5]),
   <<1, Ascii.lbrace, Ascii.rbrace>>}

(* ----------------------------- state machine --------------------------- *)

\* every call writing into one shared buffer
SinkOf_shared(t) == 1

\* the Output buffer that the call of thread t borrows mutably
SinkOf(t) == t

InitFor(T) ==
  /\ pc = [t \in T |-> "idle"]
  /\ val = [t \in T |-> NoValue]
  /\ sink = [t \in T |-> <<>>]
  /\ input = [t \in T |-> <<>>]
  /\ res = [t \in T |-> NoResult]
  /\ prev = [t \in T |-> NoResult]
  /\ serr = [t \in T |-> "none"]

Init == InitFor(SeqThreads)

InitConc == InitFor(ConcThreads)

\* to_sql without line 97
ToSqlWriteTag_missing(t, v) ==
  /\ pc[t] = "idle"
  /\ val' = [val EXCEPT ![t] = v]
  /\ pc' = [pc EXCEPT ![t] = "to_sql_98"]
  /\ UNCHANGED <<sink, input, res, prev, serr>>

\* to_sql is called on v with a fresh Output; line 97 writes the tag
ToSqlWriteTag(t, v) ==
  /\ pc[t] = "idle"
  /\ val' = [val EXCEPT ![t] = v]
  /\ sink' = [sink EXCEPT ![SinkOf(t)] = write_all(sink[SinkOf(t)], TagBytes)]
  /\ pc' = [pc EXCEPT ![t] = "to_sql_98"]
  /\ UNCHANGED <<input, res, prev, serr>>

\* lines 98-99: the payload is written, or the Serialize impl fails part of
\* the way, and to_sql returns
ToSqlToWriter(t) ==
  /\ pc[t] = "to_sql_98"
  /\ \E fail \in SerOutcomes(val[t]) :
       LET w == to_writer(sink[SinkOf(t)], val[t], fail)
       IN /\ sink' = [sink EXCEPT ![SinkOf(t)] = w.out]
          /\ serr' = [serr EXCEPT ![t] = w.err]
          /\ res' = [res EXCEPT ![t] = to_sql_result(w)]
  /\ pc' = [pc EXCEPT ![t] = "to_sql_ret"]
  /\ UNCHANGED <<val, input, prev>>

\* from_sql is called on a byte slice of the storage layer
FromSql(t, bytes) ==
  /\ pc[t] = "idle"
  /\ input' = [input EXCEPT ![t] = bytes]
  /\ res' = [res EXCEPT ![t] = from_sql(bytes)]
  /\ pc' = [pc EXCEPT ![t] = "from_sql_ret"]
  /\ UNCHANGED <<val, sink, prev, serr>>

\* the bytes a successful to_sql left in its Output are stored and read back
FromSqlStored(t) ==
  /\ pc[t] = "to_sql_ret"
  /\ res[t].kind = "Ok"
  /\ input' = [input EXCEPT ![t] = sink[t]]
  /\ res' = [res EXCEPT ![t] = from_sql(sink[t])]
  /\ pc' = [pc EXCEPT ![t] = "from_sql_ret"]
  /\ UNCHANGED <<val, sink, prev, serr>>

\* the caller decodes the same slice a second time
FromSqlAgain(t) ==
  /\ pc[t] = "from_sql_ret"
  /\ prev[t] = NoResult
  /\ prev' = [prev EXCEPT ![t] = res[t]]
  /\ res' = [res EXCEPT ![t] = from_sql(input[t])]
  /\ UNCHANGED <<pc, val, sink, input, serr>>

\* the caller drops the result and its buffers
Return(t) ==
  /\ pc[t] \in {"to_sql_ret", "from_sql_ret"}
  /\ pc' = [pc EXCEPT ![t] = "idle"]
  /\ val' = [val EXCEPT ![t] = NoValue]
  /\ sink' = [sink EXCEPT ![t] = <<>>]
  /\ input' = [input EXCEPT ![t] = <<>>]
  /\ res' = [res EXCEPT ![t] = NoResult]
  /\ prev' = [prev EXCEPT ![t] = NoResult]
  /\ serr' = [serr EXCEPT ![t] = "none"]

Next ==
  \E t \in SeqThreads :
    \/ \E v \in Values : ToSqlWriteTag(t, v)
    \/ ToSqlToWriter(t)
    \/ \E bytes \in DecodeInputs : FromSql(t, bytes)
    \/ FromSqlStored(t)
    \/ FromSqlAgain(t)
    \/ Return(t)

NextConc ==
  \E t \in ConcThreads :
    \/ \E v \in ConcValues : ToSqlWriteTag(t, v)
    \/ ToSqlToWriter(t)
    \/ \E bytes \in ConcInputs : FromSql(t, bytes)
    \/ FromSqlStored(t)
    \/ FromSqlAgain(t)
    \/ Return(t)

Spec == Init /\ [][Next]_vars

SpecConc == InitConc /\ [][NextConc]_vars

(* -------------------------------- claims ------------------------------- *)

\* C1 (round trip): when the bytes a successful to_sql(v) left in its sink
\* are handed to from_sql, from_sql succeeds and returns a value equal to v.
C1_RoundTrip ==
  \A t \in DOMAIN pc :
    (pc[t] = "from_sql_ret" /\ val[t] # NoValue)
      => (input[t] = sink[t] /\ res[t] = Ok(val[t]))

C1_Witness ==
  \E t \in DOMAIN pc :
    /\ pc[t] = "from_sql_ret"
    /\ val[t] # NoValue
    /\ val[t].x < 0 - 9
    /\ res[t].kind = "Ok"

\* C2 (empty-input rejection, as claimed): from_sql on the empty slice
\* returns an error on the error channel; it does not panic.
C2_EmptyIsError ==
  \A t \in DOMAIN pc :
    (pc[t] = "from_sql_ret" /\ input[t] = <<>>) => res[t].kind = "Err"

\* C3 (version rejection): from_sql on a non-empty slice whose first byte is
\* not 1 fails with the unsupported-version error, whatever follows the tag.
C3_VersionRejected ==
  \A t \in DOMAIN pc :
    (pc[t] = "from_sql_ret" /\ Len(input[t]) > 0 /\ input[t][1] # 1)
      => res[t] = Err(UnsupportedVersionMsg)

C3_Witness ==
  \E t \in DOMAIN pc :
    /\ pc[t] = "from_sql_ret"
    /\ Len(input[t]) > 1
    /\ input[t][1] = 2
    /\ from_json(Tail(input[t])).st = "ok"
    /\ res[t] = Err(UnsupportedVersionMsg)

\* C4 (payload corruption rejection): from_sql on a slice whose first byte is
\* 1 and whose remainder the JSON parser rejects fails with the one fixed
\* invalid-payload message, whatever the parser's own error was.
C4_InvalidPayload ==
  \A t \in DOMAIN pc :
    (/\ pc[t] = "from_sql_ret"
     /\ Len(input[t]) > 0
     /\ input[t][1] = 1
     /\ from_json(Tail(input[t])).st \in {"eof", "syntax", "data"})
      => res[t] = Err(InvalidJsonMsg)

C4_Witness ==
  \E t \in DOMAIN pc :
    /\ pc[t] = "from_sql_ret"
    /\ input[t] = <<1, 123, 125>>
    /\ from_json(Tail(input[t])).st = "data"
    /\ res[t] = Err(InvalidJsonMsg)

\* C5 (tag invariance): whatever to_sql has written to a sink, the first
\* byte of the sink is 1.
C5_TagFirst ==
  \A t \in DOMAIN pc : Len(sink[t]) > 0 => sink[t][1] = 1

C5_Witness ==
  \E t \in DOMAIN pc :
    /\ pc[t] = "to_sql_ret"
    /\ res[t].kind = "Ok"
    /\ Len(sink[t]) > 1
    /\ sink[t][1] = 1

\* C6 (no null emission): a to_sql call that does not fail returns
\* IsNull::No, never the null outcome.
C6_NeverNull ==
  \A t \in DOMAIN pc :
    (pc[t] = "to_sql_ret" /\ res[t].kind = "Ok") => res[t].value = "IsNull::No"

C6_Witness ==
  \E t \in DOMAIN pc :
    /\ pc[t] = "to_sql_ret"
    /\ serr[t] = "none"
    /\ res[t] = Ok("IsNull::No")

\* C7 (layout and order): after line 97 the sink holds the tag byte alone;
\* after a successful to_sql it holds the tag followed at once by the JSON
\* text of the value and nothing else.
C7_Layout ==
  \A t \in DOMAIN pc :
    /\ pc[t] = "to_sql_98" => sink[t] = <<1>>
    /\ (pc[t] = "to_sql_ret" /\ res[t].kind = "Ok") =>
         /\ Len(sink[t]) = 1 + Len(to_json(val[t]))
         /\ sink[t][1] = 1
         /\ SubSeq(sink[t], 2, Len(sink[t])) = to_json(val[t])
         /\ val[t] = [x |-> 5] =>
              sink[t] = <<1, 123, 34, 120, 34, 58, 53, 125>>
         /\ val[t] = [x |-> 0 - 10] =>
              sink[t] = <<1, 123, 34, 120, 34, 58, 45, 49, 48, 125>>

C7_Witness ==
  \E t \in DOMAIN pc :
    /\ pc[t] = "to_sql_ret"
    /\ res[t].kind = "Ok"
    /\ val[t] = [x |-> 5]
    /\ sink[t] = <<1, 123, 34, 120, 34, 58, 53, 125>>

\* the calls of t that ended in the unsupported-version branch of from_sql
BadVersion(t) ==
  pc[t] = "from_sql_ret" /\ Len(input[t]) > 0 /\ input[t][1] # 1

\* C8 (as claimed): the unsupported-version error carries the offending byte,
\* so two slices with different offending first bytes give different errors.
C8_ErrorCarriesByte ==
  \A t, u \in DOMAIN pc :
    (BadVersion(t) /\ BadVersion(u) /\ input[t][1] # input[u][1])
      => res[t] # res[u]

\* C8 (amended): the unsupported-version error is one fixed message; slices
\* with different offending first bytes give the same error.
C8_ErrorIsFixed ==
  \A t, u \in DOMAIN pc :
    (BadVersion(t) /\ BadVersion(u))
      => (res[t].kind = "Err" /\ res[t] = res[u])

C8_Witness ==
  \E t, u \in DOMAIN pc :
    /\ BadVersion(t) /\ BadVersion(u)
    /\ input[t][1] = 0 /\ input[u][1] = 2
    /\ res[t] = res[u]

\* C9 (encode failure propagation): when the JSON serializer fails, to_sql
\* returns that very error, not success and not one of the decode messages,
\* and the sink holds the tag and a part of the payload that from_sql does
\* not accept.
C9_FailurePropagates ==
  \A t \in DOMAIN pc :
    (pc[t] = "to_sql_ret" /\ serr[t] # "none") =>
      /\ res[t] = Err(serr[t])
      /\ res[t].err \in SerErrors
      /\ res[t].err \notin {UnsupportedVersionMsg, InvalidJsonMsg}
      /\ Len(sink[t]) >= 1
      /\ sink[t][1] = 1
      /\ from_sql(sink[t]).kind # "Ok"

C9_Witness ==
  \E t \in DOMAIN pc :
    /\ pc[t] = "to_sql_ret"
    /\ serr[t] = "key must be a string"
    /\ Len(sink[t]) > 1
    /\ res[t].kind = "Err"

====
